---- MODULE Spec2Model ----
(***************************************************************************)
(* Model of the LUKS+TPM hardware manager of ironic-python-agent:          *)
(*   src/ironic_python_agent/hardware_managers/luks_tpm.py                 *)
(*   src/ironic_python_agent/hardware_managers/luks/luks_utils.py          *)
(*                                                                         *)
(* The engine is single threaded and synchronous.  One invocation of a    *)
(* public operation runs at a time; every external command               *)
(* (utils.execute), every disk_utils lookup and every tpm_utils call is   *)
(* one step that either succeeds or raises.  `cmds` records the steps one *)
(* invocation has issued, `result` what the invocation handed back to    *)
(* its caller.                                                           *)
(***************************************************************************)
EXTENDS Integers, Sequences, FiniteSets, TLC

VARIABLES
    disk,          \* the GPT of the target device: a sequence of entries
    sectorSize,    \* logical sector size of the device, in bytes
    lastUsable,    \* last usable sector of the device
    tpmPresent,    \* what tpm.check_tpm_compatibility() would report if called
    link,          \* target of the symlink /tmp/root_partition, "" when absent
    keyFiles,      \* plaintext key files present on the transient filesystem
    calls,         \* number of invocations started so far
    pc,            \* position of the running invocation, "idle" between them
    op,            \* the operation invoked last
    arg,           \* its partition argument ("" when it takes a device)
    cmds,          \* steps issued by the invocation, in order
    result,        \* outcome handed to the caller
    partitions,    \* local of detect_root_partition_on_device
    i,             \* position of its for-loop in `partitions`
    root_partition_info,  \* local: None or the dict built at lines 114-115
    luks_header_sector_size,  \* local of _grow_part
    first_sector,  \* local of _grow_part: unbound, or the text read
    last_sector,   \* local of _grow_part: unbound, or the text read/computed
    key_file,      \* the key path the workflow obtained, "" before
    disk0          \* history: the GPT as it was when the invocation started

vars == <<disk, sectorSize, lastUsable, tpmPresent, link, keyFiles, calls, pc,
          op, arg, cmds, result, partitions, i, root_partition_info,
          luks_header_sector_size, first_sector, last_sector, key_file,
          disk0>>

envVars == <<sectorSize, lastUsable, tpmPresent>>
detectLocals == <<partitions, i, root_partition_info>>
growLocals == <<luks_header_sector_size, first_sector, last_sector>>

-----------------------------------------------------------------------------
(* Bounds of the model *)

MaxParts == 3      \* partitions on the device
MaxCalls == 2      \* invocations in one behaviour

-----------------------------------------------------------------------------
(* Program constants *)

RootTypeGuid == "4F68BCE3-E8CD-4DB1-96E7-FBCAF984B709"
OtherTypeGuid == "0FC63DAF-8483-4772-8E79-3D69D8477DE4"
TypeGuids == {RootTypeGuid, OtherTypeGuid}

HeaderBytes == 32 * 1024 * 1024
ConfigDriveMapTarget == "config-2"
MapperDir == "/dev/mapper/"

Device == "/dev/sda"

(* Layout of the modelled devices: entry n starts at FirstStart +          *)
(* (n-1)*PartStride and is PartSectors long, which leaves more than        *)
(* 32 MiB of 512-byte sectors free behind each entry.                      *)
FirstStart == 2048
PartSectors == 204800
PartStride == 409600
TailRoom == 131072
SectorSizes == {512, 520, 4096}

-----------------------------------------------------------------------------
(* Python values *)

None == <<>>
IsNone(v) == DOMAIN v = {}

(* A local variable of a function: not yet assigned, or holding a text *)
Unbound == [bound |-> FALSE, text |-> <<>>]
Bound(t) == [bound |-> TRUE, text |-> t]

(* str(n) of a non-negative int, as its sequence of decimal digits *)
RECURSIVE PyStr(_)
PyStr(n) == IF n < 10 THEN <<n>> ELSE PyStr(n \div 10) \o <<n % 10>>

(* int(s) of a text of decimal digits *)
RECURSIVE PyInt(_)
PyInt(s) == IF Len(s) = 0 THEN 0
            ELSE 10 * PyInt(SubSeq(s, 1, Len(s) - 1)) + s[Len(s)]

-----------------------------------------------------------------------------
(* The external tools and the helpers of disk_utils and tpm_utils *)

(* Entry n of a freshly imaged device *)
Entry(n, typecode) ==
    [number |-> n, typecode |-> typecode,
     first |-> FirstStart + (n - 1) * PartStride,
     last |-> FirstStart + (n - 1) * PartStride + PartSectors - 1]

Disks == UNION {{[n \in 1..len |-> Entry(n, t[n])] : t \in [1..len -> TypeGuids]}
                : len \in 0..MaxParts}

EndOfTable(d) == IF Len(d) = 0 THEN FirstStart - 1 ELSE d[Len(d)].last

(* disk_utils.list_partitions(disk): the entries in listing order *)
list_partitions(d) == [k \in 1..Len(d) |-> [number |-> d[k].number]]

(* disk_utils.partition_index_to_path(disk, p_num) *)
partition_index_to_path(dev, p_num) == dev \o ToString(p_num)

(* Position in the table of the entry numbered p_num *)
EntryOf(d, p_num) == CHOOSE k \in 1..Len(d) : d[k].number = p_num

(* stdout of `sgdisk --info N dev`, split into lines and each line split   *)
(* at single spaces; numbers are decimal texts                             *)
SgdiskInfo(e) ==
    << <<"Partition", "GUID", "code:", e.typecode, "(name)">>,
       <<"Partition", "unique", "GUID:", "guid">>,
       <<"First", "sector:", PyStr(e.first), "(at", "offset)">>,
       <<"Last", "sector:", PyStr(e.last), "(at", "offset)">>,
       <<"Partition", "size:", PyStr(e.last - e.first + 1), "sectors">> >>

(* stdout that lacks the sector lines *)
SgdiskShort == << <<"Partition", "does", "not", "exist.">> >>

(* lines[l] split at " " has an element [t] (Python indices, from 0) *)
HasToken(lines, l, t) == l + 1 <= Len(lines) /\ t + 1 <= Len(lines[l + 1])
Token(lines, l, t) == lines[l + 1][t + 1]

(* tpm.check_and_generate_key_file() and tpm.unseal_tpm_key() hand back    *)
(* the path of a plaintext key file                                        *)
KeyPath(n) == "/run/luks-key-" \o ToString(n)
KeyFailures == {"KeyUnavailable", "KeyProvisioningFailed"}

Cmd(c, idx, first, last, key, part) ==
    [cmd |-> c, idx |-> idx, first |-> first, last |-> last, key |-> key,
     part |-> part, ok |-> TRUE]
Ev(c) == Cmd(c, 0, <<>>, <<>>, "", "")

NoResult == [kind |-> "none", exc |-> "", at |-> "", val |-> "", info |-> None]
Returned(val, info) ==
    [kind |-> "returned", exc |-> "", at |-> "", val |-> val, info |-> info]
Raised(exc, at) ==
    [kind |-> "raised", exc |-> exc, at |-> at, val |-> "", info |-> None]

-----------------------------------------------------------------------------
(* luks_tpm.py: pure pieces of the code *)

(* Truth value of a Python object: a function object is always true *)
FnObj(name) == [type |-> "function", name |-> name, val |-> TRUE]
PyBool(b) == [type |-> "bool", name |-> "", val |-> b]
Truthy(v) == IF v.type = "function" THEN TRUE ELSE v.val
PyAnd(a, b) == IF Truthy(a) THEN b ELSE a

(* luks_utils.check_luks_compatibility(): what a call returns *)
check_luks_compatibility == PyBool(TRUE)

(* _detect_dependency(): the two checks are named, not called *)
detect_dependency ==
    LET luks_compatibility == FnObj("check_luks_compatibility")
        tpm_conpatibility == FnObj("check_tpm_compatibility")
    IN  PyAnd(luks_compatibility, tpm_conpatibility)

(* evaluate_hardware_support() *)
evaluate_hardware_support ==
    IF Truthy(detect_dependency) THEN "MAINLINE" ELSE "NONE"

(* body of the three partition_image_* methods: log, then fall off the end *)
partition_image_stub == Returned("None", None)

(* the scan keeps the first entry it finds *)
ScanUpdate_FirstMatchWins(info, p_num, typecode) ==
    IF typecode = RootTypeGuid /\ IsNone(info)
    THEN [partition_path |-> partition_index_to_path(Device, p_num),
          index_number |-> p_num]
    ELSE info

(* loop body of detect_root_partition_on_device, lines 110-115 *)
ScanUpdate(info, p_num, typecode) ==
    IF typecode = RootTypeGuid
    THEN [partition_path |-> partition_index_to_path(Device, p_num),
          index_number |-> p_num]
    ELSE info

(* the scan never reports a missing match *)
NoMatch_Never(info) == FALSE

(* `if not root_partition_info`, line 116 *)
NoMatch(info) == IsNone(info)

(* except-handler of detect_root_partition_on_device: logs the device and  *)
(* re-raises what it caught                                                *)
DetectReraise(exc) == exc

(* the workflow asks for the key right after the lookup *)
WdiAfterDetect_SkipGrow == "genkey"

(* whole_disk_image_encryption: what follows detect_root_partition_on_device *)
WdiAfterDetect == "sectsize"

(* the workflow re-encrypts without asking for a key *)
WdiAfterGrow_SkipKey == "reencrypt"

(* whole_disk_image_encryption: what follows _grow_part *)
WdiAfterGrow == "genkey"

(* the header counted in decimal megabytes *)
HeaderSectors_Decimal(sector_size) == (32 * 1000 * 1000) \div sector_size

(* luks_header_sector_size = int(32 * 1024 * 1024 / sector_size) *)
HeaderSectors(sector_size) == HeaderBytes \div sector_size

(* the header taken off the end instead of added to it *)
NewLastSector_Shrink(last_text, header_sectors) ==
    PyStr(PyInt(last_text) - header_sectors)

(* last_sector = str(int(last_sector) + luks_header_sector_size) *)
NewLastSector(last_text, header_sectors) ==
    PyStr(PyInt(last_text) + header_sectors)

(* the rewrite aimed at entry 1 whatever entry was found *)
RewriteCmd_FirstEntry(idx_num, first_text, last_text) ==
    Cmd("sgdisk-rewrite", 1, first_text, last_text, "", Device)

(* the rewrite: sgdisk -e -d idx -n idx:first:last device *)
RewriteCmd(idx_num, first_text, last_text) ==
    Cmd("sgdisk-rewrite", idx_num, first_text, last_text, "", Device)

(* the handler's log arguments can never be built *)
GrowReraise_AlwaysUnbound(exc, first, last) == "UnboundLocalError"

(* except-handler of _grow_part: building the log arguments reads          *)
(* first_sector and last_sector; when one of them is still unbound that    *)
(* read raises inside save_and_reraise_exception, which then drops the     *)
(* exception it had saved                                                  *)
GrowReraise(exc, first, last) ==
    IF first.bound /\ last.bound THEN exc ELSE "UnboundLocalError"

(* a failed primary step is tried again *)
AfterPrimary_Retry(ok) == IF ok THEN "addkey" ELSE "reencrypt"

(* the second key slot is filled whatever the primary step did *)
AfterPrimary_Always(ok) == "addkey"

(* luks_utils.py: after the primary cryptsetup step *)
AfterPrimary(ok) == IF ok THEN "addkey" ELSE "raise"

(* except-handlers of luks_utils: log, then re-raise what was caught *)
LuksReraise(exc) == exc

(* the mapper name alone *)
MappedPath_NoDir(map_target) == map_target

(* luks_open_partition: return '/dev/mapper/' + map_target *)
MappedPath(map_target) == MapperDir \o map_target

-----------------------------------------------------------------------------
(* Initial states: a freshly imaged device, nothing invoked yet *)

Init ==
    /\ disk \in Disks
    /\ sectorSize \in SectorSizes
    /\ lastUsable \in {EndOfTable(disk), EndOfTable(disk) + TailRoom}
    /\ tpmPresent \in BOOLEAN
    /\ link = ""
    /\ keyFiles = {}
    /\ calls = 0
    /\ pc = "idle"
    /\ op = ""
    /\ arg = ""
    /\ cmds = <<>>
    /\ result = NoResult
    /\ partitions = <<>>
    /\ i = 0
    /\ root_partition_info = None
    /\ luks_header_sector_size = 0
    /\ first_sector = Unbound
    /\ last_sector = Unbound
    /\ key_file = ""
    /\ disk0 = disk

PartitionArgs == {partition_index_to_path(Device, n) : n \in 1..2}

(* A caller invokes operation o with partition argument a; the frame of    *)
(* the invocation starts empty                                             *)
Begin(o, a, start, res) ==
    /\ pc = "idle"
    /\ calls < MaxCalls
    /\ calls' = calls + 1
    /\ op' = o
    /\ arg' = a
    /\ pc' = start
    /\ cmds' = <<>>
    /\ result' = res
    /\ partitions' = <<>>
    /\ i' = 0
    /\ root_partition_info' = None
    /\ luks_header_sector_size' = 0
    /\ first_sector' = Unbound
    /\ last_sector' = Unbound
    /\ disk0' = disk
    /\ UNCHANGED <<disk, envVars, link>>

(* The invocation ends by raising exc to its caller *)
Raise(exc, at) ==
    /\ result' = Raised(exc, at)
    /\ pc' = "idle"

(* The invocation ends by returning *)
Return(val, info) ==
    /\ result' = Returned(val, info)
    /\ pc' = "idle"

(* The invocation issues step c, which succeeds or fails *)
Issue(c, ok) == cmds' = Append(cmds, [c EXCEPT !.ok = ok])

-----------------------------------------------------------------------------
(* LuksTpmHardwareManager.evaluate_hardware_support *)

EvaluateHardwareSupport ==
    /\ Begin("evaluate_hardware_support", "", "idle",
             Returned(evaluate_hardware_support, None))
    /\ UNCHANGED <<keyFiles, key_file>>

(* The three partition-image methods *)
PartitionImageOps ==
    {"partition_image_root_partition_encryption",
     "partition_image_initrd_customization",
     "partition_image_open_root_partition"}

PartitionImage ==
    \E o \in PartitionImageOps, a \in PartitionArgs :
        /\ Begin(o, a, "idle", partition_image_stub)
        /\ UNCHANGED <<keyFiles, key_file>>

-----------------------------------------------------------------------------
(* detect_root_partition_on_device, called directly or as the first step   *)
(* of whole_disk_image_encryption                                          *)

CallDetect ==
    /\ Begin("detect_root_partition_on_device", "", "list", NoResult)
    /\ UNCHANGED <<keyFiles, key_file>>

CallWholeDisk ==
    /\ Begin("whole_disk_image_encryption", "", "list", NoResult)
    /\ key_file' = ""
    /\ UNCHANGED keyFiles

(* line 103: outside the try block *)
ListPartitions ==
    /\ pc = "list"
    /\ \E ok \in BOOLEAN :
        /\ Issue(Ev("list_partitions"), ok)
        /\ IF ok
           THEN /\ partitions' = list_partitions(disk)
                /\ i' = 1
                /\ pc' = "scan"
                /\ UNCHANGED result
           ELSE /\ Raise("ProcessExecutionError", "list_partitions")
                /\ UNCHANGED <<partitions, i>>
    /\ UNCHANGED <<disk, envVars, link, keyFiles, calls, op, arg,
                   root_partition_info, growLocals, key_file, disk0>>

(* lines 106-115: one iteration of the loop *)
ScanQuery ==
    /\ pc = "scan"
    /\ i <= Len(partitions)
    /\ LET p_num == partitions[i].number IN
        \E ok \in BOOLEAN :
            /\ Issue(Cmd("sgdisk-info", p_num, <<>>, <<>>, "", Device), ok)
            /\ IF ok
               THEN LET lines == SgdiskInfo(disk[EntryOf(disk, p_num)])
                        typecode == Token(lines, 0, 3)
                    IN  /\ root_partition_info' =
                             ScanUpdate(root_partition_info, p_num, typecode)
                        /\ i' = i + 1
                        /\ UNCHANGED <<pc, result>>
               ELSE /\ Raise(DetectReraise("ProcessExecutionError"),
                             "sgdisk-info")
                    /\ UNCHANGED <<i, root_partition_info>>
    /\ UNCHANGED <<disk, envVars, link, keyFiles, calls, op, arg, partitions,
                   growLocals, key_file, disk0>>

(* lines 116-118: the loop is over *)
ScanEnd ==
    /\ pc = "scan"
    /\ i > Len(partitions)
    /\ IF NoMatch(root_partition_info)
       THEN Raise(DetectReraise("InstanceDeployFailure"), "no-match")
       ELSE /\ pc' = "link"
            /\ UNCHANGED result
    /\ UNCHANGED <<disk, envVars, link, keyFiles, calls, op, arg, cmds,
                   detectLocals, growLocals, key_file, disk0>>

(* the link made to point at the disk instead of the partition *)
LinkTarget_Device(info) == Device

(* first argument of ln -s, line 119 *)
LinkTarget(info) == info.partition_path

(* line 155 of whole_disk_image_encryption *)
WithDevice(info) ==
    [partition_path |-> info.partition_path,
     index_number |-> info.index_number,
     device |-> Device]

(* lines 119-125: ln -s fails when the link path exists already *)
Link ==
    /\ pc = "link"
    /\ IF IsNone(root_partition_info)
       THEN /\ Raise(DetectReraise("TypeError"), "ln")
            /\ UNCHANGED <<cmds, link, root_partition_info>>
       ELSE \E ok \in {link = "", FALSE} :
            /\ Issue(Cmd("ln", 0, <<>>, <<>>, "",
                         LinkTarget(root_partition_info)), ok)
            /\ IF ok
               THEN /\ link' = LinkTarget(root_partition_info)
                    /\ IF op = "detect_root_partition_on_device"
                       THEN /\ Return("", root_partition_info)
                            /\ UNCHANGED root_partition_info
                       ELSE /\ root_partition_info' =
                                   WithDevice(root_partition_info)
                            /\ pc' = WdiAfterDetect
                            /\ UNCHANGED result
               ELSE /\ Raise(DetectReraise("ProcessExecutionError"), "ln")
                    /\ UNCHANGED <<link, root_partition_info>>
    /\ UNCHANGED <<disk, envVars, keyFiles, calls, op, arg, partitions, i,
                   growLocals, key_file, disk0>>

-----------------------------------------------------------------------------
(* _grow_part, the second step of whole_disk_image_encryption *)

(* lines 59-62 *)
GetSectorSize ==
    /\ pc = "sectsize"
    /\ \E ok \in BOOLEAN :
        /\ Issue(Ev("get_dev_sector_size"), ok)
        /\ IF ok
           THEN /\ luks_header_sector_size' = HeaderSectors(sectorSize)
                /\ pc' = "ginfo"
                /\ UNCHANGED result
           ELSE /\ Raise(GrowReraise("ProcessExecutionError", first_sector,
                                     last_sector), "get_dev_sector_size")
                /\ UNCHANGED luks_header_sector_size
    /\ UNCHANGED <<disk, envVars, link, keyFiles, calls, op, arg, detectLocals,
                   first_sector, last_sector, key_file, disk0>>

(* lines 63-67: query the entry, read both sectors, compute the new end *)
GrowInfo ==
    /\ pc = "ginfo"
    /\ LET idx_num == root_partition_info.index_number IN
        \E out \in {"ok", "short", "fail"} :
          /\ Issue(Cmd("sgdisk-i", idx_num, <<>>, <<>>, "", Device),
                   out # "fail")
          /\ IF out = "fail"
             THEN /\ Raise(GrowReraise("ProcessExecutionError", first_sector,
                                       last_sector), "sgdisk-i")
                  /\ UNCHANGED <<first_sector, last_sector>>
             ELSE LET part_info_lines ==
                          IF out = "ok"
                          THEN SgdiskInfo(disk[EntryOf(disk, idx_num)])
                          ELSE SgdiskShort
                  IN  IF ~HasToken(part_info_lines, 2, 2)
                      THEN /\ Raise(GrowReraise("IndexError", first_sector,
                                                last_sector), "first_sector")
                           /\ UNCHANGED <<first_sector, last_sector>>
                      ELSE /\ first_sector' =
                                  Bound(Token(part_info_lines, 2, 2))
                           /\ IF ~HasToken(part_info_lines, 3, 2)
                              THEN /\ Raise(GrowReraise("IndexError",
                                                        first_sector',
                                                        last_sector),
                                            "last_sector")
                                   /\ UNCHANGED last_sector
                              ELSE /\ last_sector' =
                                        Bound(NewLastSector(
                                            Token(part_info_lines, 3, 2),
                                            luks_header_sector_size))
                                   /\ pc' = "rewrite"
                                   /\ UNCHANGED result
    /\ UNCHANGED <<disk, envVars, link, keyFiles, calls, op, arg, detectLocals,
                   luks_header_sector_size, key_file, disk0>>

(* What sgdisk does to the table when the rewrite succeeds *)
Rewritten(d, c) ==
    [d EXCEPT ![EntryOf(d, c.idx)] =
        [@ EXCEPT !.first = PyInt(c.first), !.last = PyInt(c.last)]]

(* lines 68-70: sgdisk refuses an entry that ends behind the last usable   *)
(* sector                                                                  *)
GrowRewrite ==
    /\ pc = "rewrite"
    /\ LET c == RewriteCmd(root_partition_info.index_number,
                           first_sector.text, last_sector.text)
       IN  \E ok \in {PyInt(c.last) <= lastUsable, FALSE} :
               /\ Issue(c, ok)
               /\ IF ok
                  THEN /\ disk' = Rewritten(disk, c)
                       /\ pc' = WdiAfterGrow
                       /\ UNCHANGED result
                  ELSE /\ Raise(GrowReraise("ProcessExecutionError",
                                            first_sector, last_sector),
                                "sgdisk-rewrite")
                       /\ UNCHANGED disk
    /\ UNCHANGED <<envVars, link, keyFiles, calls, op, arg, detectLocals,
                   growLocals, key_file, disk0>>

-----------------------------------------------------------------------------
(* The key provider (tpm_utils) *)

(* config_drive_encryption sends the partition through _grow_part first *)
CdeFirstStep_Grow == "sectsize"

(* config_drive_encryption: its only statement asks for the key, line 172 *)
CdeFirstStep == "genkey"

CallConfigDriveEncryption ==
    \E a \in PartitionArgs :
        /\ Begin("config_drive_encryption", a, CdeFirstStep, NoResult)
        /\ key_file' = ""
        /\ UNCHANGED keyFiles

CallConfigDriveOpen ==
    \E a \in PartitionArgs :
        /\ Begin("config_drive_open", a, "unseal", NoResult)
        /\ key_file' = ""
        /\ UNCHANGED keyFiles

(* tpm.check_and_generate_key_file(), evaluated as the first argument of   *)
(* luks_re_encrypt_partition (lines 157 and 172)                           *)
GenerateKey ==
    /\ pc = "genkey"
    /\ \E out \in {"ok"} \cup KeyFailures :
        /\ Issue(Ev("check_and_generate_key_file"), out = "ok")
        /\ IF out = "ok"
           THEN /\ key_file' = KeyPath(calls)
                /\ keyFiles' = keyFiles \cup {KeyPath(calls)}
                /\ pc' = "reencrypt"
                /\ UNCHANGED result
           ELSE /\ Raise(out, "check_and_generate_key_file")
                /\ UNCHANGED <<key_file, keyFiles>>
    /\ UNCHANGED <<disk, envVars, link, calls, op, arg, detectLocals,
                   growLocals, disk0>>

(* tpm.unseal_tpm_key(), evaluated as the first argument of                *)
(* luks_open_partition (line 182)                                          *)
UnsealKey ==
    /\ pc = "unseal"
    /\ \E out \in {"ok"} \cup KeyFailures :
        /\ Issue(Ev("unseal_tpm_key"), out = "ok")
        /\ IF out = "ok"
           THEN /\ key_file' = KeyPath(calls)
                /\ keyFiles' = keyFiles \cup {KeyPath(calls)}
                /\ pc' = "open"
                /\ UNCHANGED result
           ELSE /\ Raise(out, "unseal_tpm_key")
                /\ UNCHANGED <<key_file, keyFiles>>
    /\ UNCHANGED <<disk, envVars, link, calls, op, arg, detectLocals,
                   growLocals, disk0>>

-----------------------------------------------------------------------------
(* luks_utils.py *)

(* The partition the running workflow encrypts *)
Target ==
    IF op = "whole_disk_image_encryption"
    THEN root_partition_info.partition_path
    ELSE arg

(* luks_encrypt_devcie_partition(key_file, partition), called with a key   *)
(* file its caller holds                                                   *)
CallLuksEncrypt ==
    \E a \in PartitionArgs :
        /\ Begin("luks_encrypt_devcie_partition", a, "encrypt", NoResult)
        /\ key_file' = KeyPath(calls')
        /\ keyFiles' = keyFiles \cup {KeyPath(calls')}

luksFrame == <<disk, envVars, link, keyFiles, calls, op, arg, detectLocals,
               growLocals, key_file, disk0>>

(* cryptsetup encrypt, lines 42-43 *)
Encrypt ==
    /\ pc = "encrypt"
    /\ \E ok \in BOOLEAN :
        /\ Issue(Cmd("cryptsetup-encrypt", 0, <<>>, <<>>, key_file, Target), ok)
        /\ IF AfterPrimary(ok) = "raise"
           THEN Raise(LuksReraise("ProcessExecutionError"),
                      "cryptsetup-encrypt")
           ELSE /\ pc' = AfterPrimary(ok)
                /\ UNCHANGED result
    /\ UNCHANGED luksFrame

(* cryptsetup reencrypt --encrypt --reduce-device-size 32M, lines 60-62 *)
Reencrypt ==
    /\ pc = "reencrypt"
    /\ \E ok \in BOOLEAN :
        /\ Issue(Cmd("cryptsetup-reencrypt", 0, <<>>, <<>>, key_file, Target),
                 ok)
        /\ IF AfterPrimary(ok) = "raise"
           THEN Raise(LuksReraise("ProcessExecutionError"),
                      "cryptsetup-reencrypt")
           ELSE /\ pc' = AfterPrimary(ok)
                /\ UNCHANGED result
    /\ UNCHANGED luksFrame

(* cryptsetup luksAddKey (lines 44-45 and 63-64), then return None *)
AddKey ==
    /\ pc = "addkey"
    /\ \E ok \in BOOLEAN :
        /\ Issue(Cmd("cryptsetup-luksAddKey", 0, <<>>, <<>>, key_file, Target),
                 ok)
        /\ IF ok
           THEN Return("None", None)
           ELSE Raise(LuksReraise("ProcessExecutionError"),
                      "cryptsetup-luksAddKey")
    /\ UNCHANGED luksFrame

(* luks_open_partition(key_file, conf_part, 'config-2'), lines 78-85 *)
Open ==
    /\ pc = "open"
    /\ \E ok \in BOOLEAN :
        /\ Issue(Cmd("cryptsetup-open", 0, <<>>, <<>>, key_file, Target), ok)
        /\ IF ok
           THEN Return(MappedPath(ConfigDriveMapTarget), None)
           ELSE Raise(LuksReraise("ProcessExecutionError"), "cryptsetup-open")
    /\ UNCHANGED luksFrame

-----------------------------------------------------------------------------

Next ==
    \/ EvaluateHardwareSupport
    \/ PartitionImage
    \/ CallDetect
    \/ CallWholeDisk
    \/ ListPartitions
    \/ ScanQuery
    \/ ScanEnd
    \/ Link
    \/ GetSectorSize
    \/ GrowInfo
    \/ GrowRewrite
    \/ CallConfigDriveEncryption
    \/ CallConfigDriveOpen
    \/ GenerateKey
    \/ UnsealKey
    \/ CallLuksEncrypt
    \/ Encrypt
    \/ Reencrypt
    \/ AddKey
    \/ Open

Spec == Init /\ [][Next]_vars

-----------------------------------------------------------------------------
(* Vocabulary of the properties *)

Finished(o) == pc = "idle" /\ op = o

(* Failure kinds of the specification, as the exceptions of the code *)
RootPartitionNotFound ==
    result.kind = "raised" /\ result.exc = "InstanceDeployFailure"
CommandFailed(c) ==
    result.kind = "raised" /\ result.exc = "ProcessExecutionError"
        /\ result.at = c

(* Table positions of the entries bearing the Linux-root type GUID *)
Matches(d) == {k \in 1..Len(d) : d[k].typecode = RootTypeGuid}
LastMatch(d) == CHOOSE k \in Matches(d) : \A j \in Matches(d) : j <= k

(* Every step the invocation issued succeeded *)
AllOk == \A k \in 1..Len(cmds) : cmds[k].ok
Issued(c) == \E k \in 1..Len(cmds) : cmds[k].cmd = c
LastCmd == cmds[Len(cmds)]

-----------------------------------------------------------------------------
(* C1: every invocation of a partition-image workflow, for any partition   *)
(* argument, ends in a NotImplemented failure raised to the caller and     *)
(* never returns normally.                                                 *)
C1_PartitionImageRaisesNotImplemented ==
    (pc = "idle" /\ op \in PartitionImageOps) =>
        (result.kind = "raised" /\ result.exc = "NotImplemented")

(* C2: evaluate_hardware_support returns MAINLINE if and only if both the  *)
(* LUKS check and the TPM check report their capability present, and NONE  *)
(* when either reports it absent.                                          *)
C2_SupportedIffBothChecksPass ==
    Finished("evaluate_hardware_support") =>
        /\ result.kind = "returned"
        /\ result.val = "MAINLINE" <=>
               (Truthy(check_luks_compatibility) /\ tpmPresent)
        /\ result.val = "NONE" <=>
               ~(Truthy(check_luks_compatibility) /\ tpmPresent)

-----------------------------------------------------------------------------
(* detect_root_partition_on_device *)

(* The RootPartitionInfo of the last matching entry of table d *)
LastMatchInfo(d) ==
    [partition_path |->
         partition_index_to_path(Device, d[LastMatch(d)].number),
     index_number |-> d[LastMatch(d)].number]

ReturnedLastMatch ==
    /\ result.kind = "returned"
    /\ ~IsNone(result.info)
    /\ result.info = LastMatchInfo(disk)

-----------------------------------------------------------------------------
(* whole_disk_image_encryption *)

Wdi == op = "whole_disk_image_encryption"

(* The steps that follow detect_root_partition_on_device in the workflow *)
LaterSteps ==
    {"get_dev_sector_size", "sgdisk-i", "sgdisk-rewrite",
     "check_and_generate_key_file", "cryptsetup-reencrypt",
     "cryptsetup-luksAddKey", "cryptsetup-encrypt", "cryptsetup-open",
     "unseal_tpm_key", "ln"}

NoLaterStep == \A k \in 1..Len(cmds) : cmds[k].cmd \notin LaterSteps

(* C4 as stated: when no partition matches the root type GUID the          *)
(* whole-disk-image workflow fails with RootPartitionNotFound and no later *)
(* step (sector size, geometry query, rewrite, key request, cryptsetup)    *)
(* ever runs.                                                              *)
C4_NoMatchFailsNotFound ==
    (Wdi /\ Matches(disk0) = {}) =>
        /\ NoLaterStep
        /\ pc = "idle" => RootPartitionNotFound

(* C4 amended: when no partition matches, the workflow fails and no later  *)
(* step ever runs; the failure is RootPartitionNotFound when the listing   *)
(* and every sgdisk --info query succeeded, and the ProcessExecutionError  *)
(* of the listing or query that failed otherwise.                          *)
C4_NoMatchFailsBeforeAnyLaterStep ==
    (Wdi /\ Matches(disk0) = {}) =>
        /\ NoLaterStep
        /\ pc = "idle" =>
            /\ AllOk => RootPartitionNotFound
            /\ ~AllOk => CommandFailed(LastCmd.cmd)

(* The workflow scanned a non-empty disk without a match and failed *)
C4_Witness ==
    /\ Wdi /\ pc = "idle"
    /\ Matches(disk0) = {}
    /\ Len(disk0) >= 2
    /\ AllOk
    /\ RootPartitionNotFound

(* Position of a step in the whole-disk-image workflow *)
Phase(c) ==
    CASE c = "list_partitions" -> 1
      [] c = "sgdisk-info" -> 2
      [] c = "ln" -> 3
      [] c = "get_dev_sector_size" -> 4
      [] c = "sgdisk-i" -> 5
      [] c = "sgdisk-rewrite" -> 6
      [] c = "check_and_generate_key_file" -> 7
      [] c = "cryptsetup-reencrypt" -> 8
      [] c = "cryptsetup-luksAddKey" -> 9
      [] OTHER -> 0

KeyAndCryptSteps ==
    {"check_and_generate_key_file", "cryptsetup-reencrypt",
     "cryptsetup-luksAddKey"}

-----------------------------------------------------------------------------
(* luks_utils *)

PrimarySteps == {"cryptsetup-encrypt", "cryptsetup-reencrypt"}

(* C6: in luks_encrypt_devcie_partition and luks_re_encrypt_partition      *)
(* luksAddKey is invoked only directly after the primary step (encrypt /   *)
(* reencrypt) has succeeded; when the primary step fails luksAddKey is     *)
(* never invoked and the failure propagates to the caller.                 *)
C6_AddKeyOnlyAfterPrimarySucceeded ==
    /\ \A k \in 1..Len(cmds) :
        cmds[k].cmd = "cryptsetup-luksAddKey" =>
            /\ k >= 2
            /\ cmds[k - 1].cmd \in PrimarySteps
            /\ cmds[k - 1].ok
            /\ cmds[k - 1].key = cmds[k].key
            /\ cmds[k - 1].part = cmds[k].part
    /\ \A k \in 1..Len(cmds) :
        (cmds[k].cmd \in PrimarySteps /\ ~cmds[k].ok) =>
            /\ k = Len(cmds)
            /\ pc = "idle"
            /\ CommandFailed(cmds[k].cmd)

(* The primary step of an invocation failed *)
C6_Witness ==
    /\ pc = "idle"
    /\ Len(cmds) >= 1
    /\ LastCmd.cmd \in PrimarySteps
    /\ ~LastCmd.ok
    /\ result.kind = "raised"

-----------------------------------------------------------------------------
(* _grow_part *)

(* The entry _grow_part was asked to grow, as it was before the call *)
OldEntry(c) == disk0[EntryOf(disk0, c.idx)]

RewriteIssued == Issued("sgdisk-rewrite")

(* C7: _grow_part never decreases a partition's end sector and never       *)
(* changes its start sector or its index: the rewrite recreates the entry  *)
(* at the index it was given, with the start sector read from the table    *)
(* and an end sector not below the old one, and the table afterwards has   *)
(* the same entries with the same numbers and start sectors and no end     *)
(* sector lower than before.                                               *)
C7_GrowKeepsStartAndIndex ==
    Wdi =>
        /\ \A k \in 1..Len(cmds) :
            cmds[k].cmd = "sgdisk-rewrite" =>
                /\ cmds[k].idx = root_partition_info.index_number
                /\ cmds[k].idx = disk0[LastMatch(disk0)].number
                /\ cmds[k].first = PyStr(OldEntry(cmds[k]).first)
                /\ PyInt(cmds[k].last) >= OldEntry(cmds[k]).last
        /\ Len(disk) = Len(disk0)
        /\ \A k \in 1..Len(disk) :
            /\ disk[k].number = disk0[k].number
            /\ disk[k].first = disk0[k].first
            /\ disk[k].last >= disk0[k].last

(* A rewrite succeeded and the table differs from what it was *)
C7_Witness ==
    /\ Wdi
    /\ RewriteIssued
    /\ disk # disk0

(* C8: with the 32 MiB header, the end sector _grow_part requests is the   *)
(* old end sector plus exactly 65536 for 512-byte sectors and plus exactly *)
(* 8192 for 4096-byte sectors.                                             *)
C8_HeaderSectorsFor512And4096 ==
    Wdi =>
        \A k \in 1..Len(cmds) :
            cmds[k].cmd = "sgdisk-rewrite" =>
                /\ sectorSize = 512 =>
                       PyInt(cmds[k].last) = OldEntry(cmds[k]).last + 65536
                /\ sectorSize = 4096 =>
                       PyInt(cmds[k].last) = OldEntry(cmds[k]).last + 8192

(* A rewrite was issued on a device with 4096-byte sectors *)
C8_Witness ==
    /\ Wdi
    /\ RewriteIssued
    /\ sectorSize = 4096
    /\ LastCmd.cmd = "sgdisk-rewrite"
    /\ LastCmd.ok

-----------------------------------------------------------------------------
(* luks_open_partition / config_drive_open *)

(* C9: config_drive_open returns '/dev/mapper/' + 'config-2' only when the *)
(* cryptsetup open command succeeded; when that command fails the call     *)
(* fails with the command's error, returns no path and issues no further   *)
(* command.                                                                *)
C9_OpenReturnsMappedPathOnlyOnSuccess ==
    op = "config_drive_open" =>
        /\ result.kind = "returned" =>
            /\ result.val = "/dev/mapper/config-2"
            /\ result.val = MapperDir \o ConfigDriveMapTarget
            /\ LastCmd.cmd = "cryptsetup-open"
            /\ LastCmd.ok
        /\ \A k \in 1..Len(cmds) :
            (cmds[k].cmd = "cryptsetup-open" /\ ~cmds[k].ok) =>
                /\ k = Len(cmds)
                /\ pc = "idle"
                /\ CommandFailed("cryptsetup-open")
                /\ result.val = ""
        /\ \A k \in 1..Len(cmds) :
            (cmds[k].cmd = "cryptsetup-open" /\ cmds[k].ok) =>
                /\ k = Len(cmds)
                /\ result.kind = "returned"

(* The open command of a config_drive_open invocation failed *)
C9_Witness ==
    /\ Finished("config_drive_open")
    /\ Len(cmds) = 2
    /\ LastCmd.cmd = "cryptsetup-open"
    /\ ~LastCmd.ok

-----------------------------------------------------------------------------

CeilDiv(a, b) == (a + b - 1) \div b

(* C10: for every sector size the number of sectors _grow_part adds to     *)
(* the old end sector is ceil(32 MiB / sectorSize), so the reserved space  *)
(* is never smaller than 32 MiB.                                           *)
C10_HeaderSectorsRoundedUp ==
    Wdi =>
        \A k \in 1..Len(cmds) :
            cmds[k].cmd = "sgdisk-rewrite" =>
                LET added == PyInt(cmds[k].last) - OldEntry(cmds[k]).last
                IN  /\ added = CeilDiv(HeaderBytes, sectorSize)
                    /\ added * sectorSize >= HeaderBytes

-----------------------------------------------------------------------------
(* _grow_part: reading the sector fields *)

(* The geometry query was answered, and reading its fields ended the call *)
SectorFieldUnreadable ==
    /\ Wdi /\ pc = "idle"
    /\ Len(cmds) >= 1
    /\ LastCmd.cmd = "sgdisk-i"
    /\ LastCmd.ok

ParseFailures == {"IndexError", "ValueError"}

(* C11: when the start-sector or end-sector field of the info output is    *)
(* missing or no number, _grow_part fails with GeometryQueryFailed, the    *)
(* parse failure itself being what reaches the caller, and the rewrite is  *)
(* never issued with that value.                                           *)
C11_ParseFailurePropagates ==
    SectorFieldUnreadable =>
        /\ result.kind = "raised"
        /\ result.exc \in ParseFailures
        /\ ~RewriteIssued

-----------------------------------------------------------------------------
(* The key provider in the workflows *)

KeyWorkflows ==
    {"whole_disk_image_encryption", "config_drive_encryption",
     "config_drive_open"}
KeyRequests == {"check_and_generate_key_file", "unseal_tpm_key"}
CryptsetupSteps ==
    {"cryptsetup-reencrypt", "cryptsetup-luksAddKey", "cryptsetup-open",
     "cryptsetup-encrypt"}

(* C12: when the key provider fails in the whole-disk-image, config-drive  *)
(* or config-drive-open workflow, the failure reaches the caller and no    *)
(* cryptsetup command is issued in that invocation; every cryptsetup       *)
(* command that is issued carries the key path a successful key request    *)
(* of the same invocation returned.                                        *)
C12_NoCryptsetupWithoutKey ==
    op \in KeyWorkflows =>
        /\ \A k \in 1..Len(cmds) :
            (cmds[k].cmd \in KeyRequests /\ ~cmds[k].ok) =>
                /\ k = Len(cmds)
                /\ pc = "idle"
                /\ result.kind = "raised"
                /\ result.exc \in KeyFailures
                /\ result.at = cmds[k].cmd
                /\ \A j \in 1..Len(cmds) : cmds[j].cmd \notin CryptsetupSteps
        /\ \A k \in 1..Len(cmds) :
            cmds[k].cmd \in CryptsetupSteps =>
                /\ \E j \in 1..(k - 1) :
                       cmds[j].cmd \in KeyRequests /\ cmds[j].ok
                /\ cmds[k].key # ""
                /\ cmds[k].key = key_file
                /\ cmds[k].key = KeyPath(calls)
                /\ cmds[k].key \in keyFiles

(* A key request of a workflow failed *)
C12_Witness ==
    /\ op \in KeyWorkflows /\ pc = "idle"
    /\ Len(cmds) >= 1
    /\ LastCmd.cmd \in KeyRequests
    /\ ~LastCmd.ok

-----------------------------------------------------------------------------
(* No retries *)

DestructiveSteps ==
    {"sgdisk-rewrite", "cryptsetup-reencrypt", "cryptsetup-luksAddKey",
     "cryptsetup-open"}

Times(c) == Cardinality({k \in 1..Len(cmds) : cmds[k].cmd = c})

(* C13: no step is retried: within one invocation of a workflow the        *)
(* partition-table rewrite, reencrypt, luksAddKey and open are each issued *)
(* at most once, whether they succeed or fail.                             *)
C13_NoStepRetried ==
    op \in KeyWorkflows => \A c \in DestructiveSteps : Times(c) <= 1

(* The rewrite of a whole-disk-image invocation failed and ended it *)
C13_Witness ==
    /\ Wdi /\ pc = "idle"
    /\ Len(cmds) >= 1
    /\ LastCmd.cmd = "sgdisk-rewrite"
    /\ ~LastCmd.ok
    /\ Times("sgdisk-rewrite") = 1

-----------------------------------------------------------------------------
(* The link /tmp/root_partition *)

LookupSteps == {"list_partitions", "sgdisk-info"}

(* C14: the link /tmp/root_partition is created only after a matching root *)
(* partition was found, never when the lookup fails, and points to the     *)
(* returned partition path; when creating it fails,                        *)
(* detect_root_partition_on_device fails like a lookup failure: it returns *)
(* no partition info and the whole-disk-image workflow runs no geometry,   *)
(* key or encryption step.                                                 *)
C14_LinkOnlyAfterMatchAndFailureAborts ==
    /\ link # "" =>
        /\ Matches(disk) # {}
        /\ link = LastMatchInfo(disk).partition_path
    /\ \A k \in 1..Len(cmds) :
        cmds[k].cmd = "ln" =>
            /\ Matches(disk0) # {}
            /\ cmds[k].part = LastMatchInfo(disk0).partition_path
            /\ \A j \in 1..(k - 1) :
                   cmds[j].cmd \in LookupSteps /\ cmds[j].ok
            /\ cmds[k].ok => link = cmds[k].part
            /\ ~cmds[k].ok =>
                /\ k = Len(cmds)
                /\ pc = "idle"
                /\ CommandFailed("ln")
                /\ IsNone(result.info)
    /\ (pc = "idle" /\ RootPartitionNotFound) => ~Issued("ln")
    /\ (Finished("detect_root_partition_on_device")
            /\ result.kind = "returned") =>
        /\ ~IsNone(result.info)
        /\ link = result.info.partition_path

(* Creating the link failed in a whole-disk-image invocation *)
C14_Witness ==
    /\ Wdi /\ pc = "idle"
    /\ Len(cmds) >= 1
    /\ LastCmd.cmd = "ln"
    /\ ~LastCmd.ok
    /\ Matches(disk0) # {}

-----------------------------------------------------------------------------
(* config_drive_encryption *)

ConfigDriveSteps ==
    {"check_and_generate_key_file", "cryptsetup-reencrypt",
     "cryptsetup-luksAddKey"}

(* C15: config_drive_encryption performs no geometry adjustment: it issues *)
(* no partition-table query or rewrite, so the table is unchanged by it;   *)
(* it only requests a new key and then re-encrypts the given partition in  *)
(* place.                                                                  *)
C15_ConfigDriveLeavesTable ==
    op = "config_drive_encryption" =>
        /\ disk = disk0
        /\ \A k \in 1..Len(cmds) :
            /\ cmds[k].cmd \in ConfigDriveSteps
            /\ (cmds[k].cmd = "check_and_generate_key_file") <=> (k = 1)
            /\ cmds[k].cmd = "cryptsetup-reencrypt" =>
                /\ k = 2
                /\ cmds[k].part = arg

(* A config-drive invocation re-encrypted its partition and returned *)
C15_Witness ==
    /\ Finished("config_drive_encryption")
    /\ result.kind = "returned"
    /\ Issued("cryptsetup-reencrypt")

-----------------------------------------------------------------------------
(* The partition invariant *)

TableValid(d) ==
    \A k \in 1..Len(d) : d[k].first < d[k].last /\ d[k].last <= lastUsable

BeyondDisk(c) == c.cmd = "sgdisk-rewrite" /\ PyInt(c.last) > lastUsable

(* C16 as stated: after _grow_part start sector < end sector and the end   *)
(* sector does not exceed the last usable sector, and _grow_part never     *)
(* issues a rewrite whose new end sector lies beyond the last usable       *)
(* sector.                                                                 *)
C16_NeverRewritesBeyondDisk ==
    /\ TableValid(disk)
    /\ \A k \in 1..Len(cmds) : ~BeyondDisk(cmds[k])

(* C16: the table always has start sector < end sector and no end sector   *)
(* beyond the last usable sector; a rewrite whose new end sector lies      *)
(* beyond the last usable sector is issued unchecked, the tool refuses it, *)
(* _grow_part fails with that command's error and the table is as it was.  *)
C16_TableValidRewriteBeyondDiskRefused ==
    /\ TableValid(disk)
    /\ \A k \in 1..Len(cmds) :
        BeyondDisk(cmds[k]) =>
            /\ ~cmds[k].ok
            /\ k = Len(cmds)
            /\ pc = "idle"
            /\ CommandFailed("sgdisk-rewrite")
            /\ disk = disk0

(* A rewrite beyond the last usable sector was issued and refused *)
C16_Witness ==
    /\ Wdi /\ pc = "idle"
    /\ Len(cmds) >= 1
    /\ BeyondDisk(LastCmd)
    /\ ~LastCmd.ok

-----------------------------------------------------------------------------
(* Lifetime of the key file *)

(* C17: key material does not outlive the call that consumes it: when a    *)
(* whole-disk-image, config-drive or config-drive-open workflow has        *)
(* returned or failed, the plaintext key file it obtained from the key     *)
(* provider no longer exists.                                              *)
C17_KeyFileGoneAfterWorkflow ==
    (pc = "idle" /\ op \in KeyWorkflows /\ key_file # "") =>
        key_file \notin keyFiles

-----------------------------------------------------------------------------
(* What changes the partition table *)

OkRewrites ==
    {k \in 1..Len(cmds) : cmds[k].cmd = "sgdisk-rewrite" /\ cmds[k].ok}

(* The table differs from the one at the start of the invocation in the    *)
(* end sector of the root entry only, which is larger by the header        *)
(* allowance                                                               *)
RootEntryEnlarged ==
    LET r == LastMatch(disk0) IN
        /\ Matches(disk0) # {}
        /\ Len(disk) = Len(disk0)
        /\ \A k \in 1..Len(disk) : k # r => disk[k] = disk0[k]
        /\ disk[r] = [disk0[r] EXCEPT
                        !.last = disk0[r].last + HeaderSectors(sectorSize)]

(* C18: a whole-disk-image workflow that fails before the rewrite command  *)
(* is issued leaves the partition table unchanged; the single combined     *)
(* delete-and-recreate rewrite is the only action that changes the table,  *)
(* and a workflow that fails after it leaves the enlarged entry in place   *)
(* with no rollback.                                                       *)
C18_OnlyRewriteChangesTable ==
    /\ OkRewrites = {} => disk = disk0
    /\ OkRewrites # {} =>
        /\ Wdi
        /\ Cardinality(OkRewrites) = 1
        /\ RootEntryEnlarged
        /\ disk # disk0

(* A whole-disk-image invocation failed after its rewrite had succeeded *)
C18_Witness ==
    /\ Wdi /\ pc = "idle"
    /\ result.kind = "raised"
    /\ OkRewrites # {}
    /\ disk # disk0

-----------------------------------------------------------------------------
(* Repeating the lookup *)

LookupSucceeded ==
    \A k \in 1..Len(cmds) : cmds[k].cmd \in LookupSteps => cmds[k].ok

(* C19: detect_root_partition_on_device is repeatable: called again on the *)
(* same unchanged disk after a first successful call has created the link  *)
(* /tmp/root_partition, it succeeds again and returns the same partition   *)
(* path and index.                                                         *)
C19_DetectRepeatable ==
    (/\ Finished("detect_root_partition_on_device")
     /\ link # ""
     /\ LookupSucceeded) =>
        ReturnedLastMatch

====
